---- MODULE Spec2Model ----
(***************************************************************************)
(* ArtworkTable (src/src/components/DataTable.tsx): a paginated table with *)
(* a page cache and a bulk cross-page row selection.                       *)
(*                                                                         *)
(* The component's React state is the model's state.  Every handler run    *)
(* and every continuation after an await is one atomic action: JavaScript  *)
(* runs each of them to completion, and the state updates they queue are   *)
(* applied together.  A handler reads the state of the render in which it  *)
(* was created, so the values it read before an await (pageCache, rows,    *)
(* first, selectCount) are kept in the record of the operation in flight.  *)
(*                                                                         *)
(* A record (artwork) is represented by its identifier, its 1-based        *)
(* position in the remote dataset.                                         *)
(***************************************************************************)
EXTENDS Integers, Sequences, FiniteSets

\* ---------------------------------------------------------------- bounds
\* number of records of the remote dataset
Total == 25
\* the page size a rows-per-page event may carry besides the default
AltRows == 5
\* page links the paginator offers: event.page is in 0..MaxNavPage-1
MaxNavPage == 2
\* network requests issued in one run, the one of the mount included: a
\* bulk selection of Total records from page 1 fetches pages 2 and 3 at once
MaxNetCalls == 3
\* longest e.value of a manual selection event
MaxManual == 1
\* planner inputs: counts -1..MaxPlanCount, start pages 1..MaxPlanStart
MaxPlanCount == 25
MaxPlanStart == 3
\* assembly inputs: AsmPages planned pages of 0..MaxAsmLen records (or a
\* full page), counts 1..MaxAsmCount
AsmPages == 3
MaxAsmLen == 2
MaxAsmCount == 20

\* --------------------------------------------------- program constants
\* useState<number>(12), fetchArtworks(1, 12), event.rows ?? 12
DefaultRows == 12

VARIABLES
  artworks,          \* rows displayed
  selectedArtworks,  \* SelectionSet
  loading,
  first,
  rows,
  totalRecords,
  pageCache,         \* function: cached page number -> sequence of records
  isSelecting,
  selectCount,       \* NoCount (null) or an integer
  navs,              \* fetchArtworks calls awaiting their response
  ops,               \* handleAutoSelect calls awaiting their prefetch
  netCalls,          \* number of fetch() calls issued so far
  lastOp             \* the handler or continuation that ran last

vars == <<artworks, selectedArtworks, loading, first, rows, totalRecords,
          pageCache, isSelecting, selectCount, navs, ops, netCalls,
          lastOp>>

\* selectCount: number | null
NoCount == [isNull |-> TRUE, v |-> 0]
Num(n) == [isNull |-> FALSE, v |-> n]

PageSizes == {DefaultRows, AltRows}

\* the counts tried in the count input
CountChoices == {1, AltRows + 1, DefaultRows + 1, Total - 1, Total}

\* <InputNumber min={1} max={totalRecords}/>: the numbers the input reports
CountValues == {n \in CountChoices : 1 <= n /\ n <= totalRecords}

\* e.value ?? null: a number of the input's range, or null for a cleared
\* input
SelectCounts == {Num(n) : n \in CountValues} \cup {NoCount}

Min(a, b) == IF a < b THEN a ELSE b
Max(a, b) == IF a > b THEN a ELSE b

EmptyCache == [p \in {} |-> <<>>]

\* ------------------------------------------------------- remote source
\* GET artworks?page=p&limit=size : data.data of a successful response,
\* after the field mapping of the component
RemoteLen(p, size) == Max(0, Min(size, Total - (p - 1) * size))
RemotePage(p, size) == [i \in 1..RemoteLen(p, size) |-> (p - 1) * size + i]
\* data.pagination.total
RemoteTotal == Total

\* ----------------------------------------------------------- rendering
\* {loading ? <ProgressSpinner/> : <DataTable .../>}: the table, its
\* paginator and the Select Rows panel exist only while loading is false
TableRendered == ~loading

\* mutant: the Select button stays enabled during a bulk selection
SelectEnabledAlways == TRUE

\* <Button onClick={handleAutoSelect} disabled={isSelecting}/>
SelectEnabled == ~isSelecting

\* ------------------------------------------------------ pure functions
\* { ...prev, ...newCache }
MergeCache(prev, newCache) ==
  [p \in (DOMAIN prev) \cup (DOMAIN newCache) |->
     IF p \in DOMAIN newCache THEN newCache[p] ELSE prev[p]]

\* { ...prev, [page]: mappedData }
PutPage(prev, page, data) ==
  [p \in (DOMAIN prev) \cup {page} |-> IF p = page THEN data ELSE prev[p]]

\* mutant: the cache is not consulted
CacheHitNever(cache, page) == FALSE

\* if (pageCache[page]) in fetchArtworks: an array, even an empty one, is
\* truthy
CacheHit(cache, page) == page \in DOMAIN cache

\* mutant: the fetched page is not stored
CacheAfterFetchLost(cache, page, data, ok) == cache

\* pageCache after the try/catch of fetchArtworks: setPageCache runs only
\* when nothing threw before it
CacheAfterFetch(cache, page, data, stored) ==
  IF stored THEN PutPage(cache, page, data) ELSE cache

RECURSIVE PagesLoop(_, _, _, _)
PagesLoop(pages, remaining, page, pageSize) ==
  IF remaining > 0
    THEN PagesLoop(Append(pages, page), remaining - pageSize, page + 1,
                   pageSize)
    ELSE pages

\* mutant: the loop runs while remaining >= 0
CalculatePagesNeededInclusive(count, currentPage, pageSize) ==
  PagesLoop(<<>>, count + 1, currentPage, pageSize)

\* calculatePagesNeeded(count, currentPage), reading rows
CalculatePagesNeeded(count, currentPage, pageSize) ==
  PagesLoop(<<>>, count, currentPage, pageSize)

\* mutant: the plan always starts at page 1
CurrentPageOne(f, r) == 1

\* Math.floor(first / rows) + 1
CurrentPage(f, r) == (f \div r) + 1

\* fetchedData[pageNum] || pageCache[pageNum] || []
PageData(fetchedData, cache, pageNum) ==
  IF pageNum \in DOMAIN fetchedData THEN fetchedData[pageNum]
  ELSE IF pageNum \in DOMAIN cache THEN cache[pageNum]
  ELSE <<>>

\* mutant: the pages are walked in the order their responses arrived
AssemblyOrderArrival(plan, arrived) ==
  SelectSeq(plan, LAMBDA p : \A i \in 1..Len(arrived) : arrived[i] # p)
    \o arrived

\* the pages the assembly loop walks: for (const pageNum of pagesToFetch)
AssemblyOrder(plan, arrived) == plan

\* mutant: the whole page is taken whatever is still needed
ToTakeWholePage(remaining, pageData) == Len(pageData)

\* const toTake = Math.min(remaining, pageData.length)
ToTake(remaining, pageData) == Min(remaining, Len(pageData))

RECURSIVE AssembleLoop(_, _, _, _, _, _)
AssembleLoop(order, i, selected, remaining, fetchedData, cache) ==
  IF i > Len(order) THEN selected
  ELSE
    LET pageData == PageData(fetchedData, cache, order[i])
        toTake   == ToTake(remaining, pageData)
        sel2     == selected \o SubSeq(pageData, 1, toTake)
        rem2     == remaining - toTake
    IN IF rem2 <= 0 THEN sel2
       ELSE AssembleLoop(order, i + 1, sel2, rem2, fetchedData, cache)

\* mutant: a planned page without data makes the whole selection empty
AssembleAllOrNothing(count, order, fetchedData, cache) ==
  IF \E i \in 1..Len(order) :
       order[i] \notin (DOMAIN fetchedData) \cup (DOMAIN cache)
    THEN <<>>
    ELSE AssembleLoop(order, 1, <<>>, count, fetchedData, cache)

\* the selection assembled by handleAutoSelect after prefetchPages returned
Assemble(count, order, fetchedData, cache) ==
  AssembleLoop(order, 1, <<>>, count, fetchedData, cache)

\* the pages prefetchPages requests: those with no entry in the cache the
\* handler closed over
Missing(plan, cache) ==
  {plan[i] : i \in 1..Len(plan)} \ DOMAIN cache

\* newCache right after the map callbacks ran up to their first await
CachedPart(plan, cache) ==
  [p \in {plan[i] : i \in 1..Len(plan)} \cap DOMAIN cache |-> cache[p]]

RemoveAt(s, i) == SubSeq(s, 1, i - 1) \o SubSeq(s, i + 1, Len(s))

\* ---------------------------------------------------------------- Init
\* after the first render and useEffect(() => fetchArtworks(1, 12), [])
Init ==
  /\ artworks = <<>>
  /\ selectedArtworks = <<>>
  /\ loading = TRUE
  /\ first = 0
  /\ rows = DefaultRows
  /\ totalRecords = 0
  /\ pageCache = EmptyCache
  /\ isSelecting = FALSE
  /\ selectCount = NoCount
  /\ navs = <<[page |-> 1, size |-> DefaultRows, calls0 |-> 0]>>
  /\ ops = <<>>
  /\ netCalls = 1
  /\ lastOp = [op |-> "mount", issued |-> {1}]

\* ------------------------------------------------------- fetchArtworks
\* fetchArtworks(page, pageSize) up to its first await (or its return)
FetchArtworksStart(page, pageSize) ==
  IF CacheHit(pageCache, page)
    THEN /\ artworks' = pageCache[page]
         /\ loading' = FALSE
         /\ UNCHANGED <<navs, netCalls>>
         /\ lastOp' = [op |-> "onPage", page |-> page, size |-> pageSize,
                       hit |-> TRUE, issued |-> {},
                       again |-> /\ lastOp.op = "fetchDone"
                                 /\ lastOp.stored
                                 /\ lastOp.page = page
                                 /\ lastOp.size = pageSize]
    ELSE /\ netCalls < MaxNetCalls
         /\ loading' = TRUE
         /\ navs' = Append(navs, [page |-> page, size |-> pageSize,
                                  calls0 |-> netCalls])
         /\ netCalls' = netCalls + 1
         /\ UNCHANGED artworks
         /\ lastOp' = [op |-> "onPage", page |-> page, size |-> pageSize,
                       hit |-> FALSE, issued |-> {page},
                       again |-> /\ lastOp.op = "fetchDone"
                                 /\ lastOp.stored
                                 /\ lastOp.page = page
                                 /\ lastOp.size = pageSize]

\* onPage(event): the paginator's page links give first = page * rows with
\* rows unchanged; its rows-per-page control keeps first and gives
\* page = floor(first / rows)
PageEvents ==
  {[page |-> k, first |-> k * rows, rows |-> rows] : k \in 0..(MaxNavPage - 1)}
  \cup
  {[page |-> first \div r, first |-> first, rows |-> r] : r \in PageSizes}

\* mutant: a page change clears the selection
OnPageResetsSelection ==
  /\ TableRendered
  /\ \E event \in PageEvents :
       /\ first' = event.first
       /\ rows' = event.rows
       /\ FetchArtworksStart(event.page + 1, event.rows)
  /\ selectedArtworks' = <<>>
  /\ UNCHANGED <<totalRecords, pageCache, isSelecting, selectCount, ops>>

OnPage ==
  /\ TableRendered
  /\ \E event \in PageEvents :
       /\ first' = event.first
       /\ rows' = event.rows
       /\ FetchArtworksStart(event.page + 1, event.rows)
  /\ UNCHANGED <<selectedArtworks, totalRecords, pageCache, isSelecting,
                 selectCount, ops>>

\* mutant: setLoading(false) at the end of the try block, not in a finally
LoadingAfterFetchNoFinally(ok) == ~ok

\* finally { setLoading(false) }
LoadingAfterFetch(ok) == FALSE

\* how the try block of fetchArtworks can end once the response is there:
\*   "ok"      it ran through
\*   "noTotal" the body has data and no pagination: setPageCache and
\*             setArtworks ran, then data.pagination.total threw
\*   "fail"    fetch, json() or the mapping of data.data threw
NavOutcomes == {"ok", "noTotal", "fail"}

\* the throw, if any, came after setPageCache and setArtworks
Stored(outcome) == outcome # "fail"

\* the rest of fetchArtworks once the response of navs[i] is there
FetchArtworksDone(i, outcome) ==
  LET req  == navs[i]
      data == RemotePage(req.page, req.size)
      ok   == outcome = "ok"
  IN /\ navs' = RemoveAt(navs, i)
     /\ loading' = LoadingAfterFetch(ok)
     /\ pageCache' = CacheAfterFetch(pageCache, req.page, data,
                                     Stored(outcome))
     /\ artworks' = IF Stored(outcome) THEN data ELSE artworks
     /\ totalRecords' = IF ok THEN RemoteTotal ELSE totalRecords
     /\ lastOp' = [op |-> "fetchDone", page |-> req.page, size |-> req.size,
                   ok |-> ok, stored |-> Stored(outcome),
                   calls0 |-> req.calls0, issued |-> {}]
     /\ UNCHANGED <<selectedArtworks, first, rows, isSelecting, selectCount,
                    ops, netCalls>>

FetchResponse ==
  \E i \in 1..Len(navs) : \E outcome \in NavOutcomes :
    FetchArtworksDone(i, outcome)

\* ------------------------------------------------------ selection input
\* onValueChange={(e) => setSelectCount(e.value ?? null)}
SetSelectCount ==
  /\ TableRendered
  /\ ~isSelecting      \* <InputNumber disabled={isSelecting}/>
  /\ \E v \in SelectCounts :
       /\ v # selectCount
       /\ selectCount' = v
  /\ lastOp' = [op |-> "setSelectCount", issued |-> {}]
  /\ UNCHANGED <<artworks, selectedArtworks, loading, first, rows,
                 totalRecords, pageCache, isSelecting, navs, ops, netCalls>>

\* e.value || [] for the values a selection event carries here: null or
\* the empty array (k = 0), or the first k displayed rows
ManualValues ==
  {SubSeq(artworks, 1, k) : k \in 0..Min(MaxManual, Len(artworks))}

\* onSelectionChange(e): setSelectedArtworks(e.value || [])
OnSelectionChange ==
  /\ TableRendered
  /\ \E value \in ManualValues :
       /\ selectedArtworks' = value
       /\ lastOp' = [op |-> "onSelectionChange", value |-> value,
                     issued |-> {}]
  \* every bulk selection in flight notes the selection made meanwhile
  /\ ops' = [i \in 1..Len(ops) |->
               [ops[i] EXCEPT !.manual = selectedArtworks']]
  /\ UNCHANGED <<artworks, loading, first, rows, totalRecords, pageCache,
                 isSelecting, selectCount, navs, netCalls>>

\* ---------------------------------------------------- handleAutoSelect
\* mutant: no count is rejected
RejectedNever(c) == FALSE

\* !selectCount || selectCount <= 0
Rejected(c) == c.isNull \/ c.v = 0 \/ c.v <= 0

\* mutant: the assembled records are added to the selection
NewSelectionMerged(previous, selected) == previous \o selected

\* setSelectedArtworks(selected): the value replaces the selection
NewSelection(previous, selected) == selected

\* what handleAutoSelect writes once prefetchPages has returned newCache:
\* setPageCache(prev => ({...prev, ...newCache})), setSelectedArtworks,
\* setIsSelecting(false)
AutoSelectFinish(op, newCache, restOps) ==
  /\ pageCache' = MergeCache(pageCache, newCache)
  /\ selectedArtworks' =
       NewSelection(selectedArtworks,
                    Assemble(op.count, AssemblyOrder(op.plan, op.arrived),
                             newCache, op.snap))
  /\ isSelecting' = FALSE
  /\ ops' = restOps
  /\ lastOp' = [op |-> "autoSelectDone", count |-> op.count,
                sync |-> (op.arrived = <<>>),
                first |-> op.first, size |-> op.size, plan |-> op.plan,
                requested |-> op.requested, failed |-> op.failed,
                arrived |-> op.arrived, fetched |-> newCache,
                manual |-> op.manual, issued |-> op.issuedNow]

\* a click on Select
HandleAutoSelect ==
  /\ TableRendered
  /\ SelectEnabled
  /\ IF Rejected(selectCount)
       THEN /\ lastOp' = [op |-> "autoSelect", count |-> selectCount,
                          accepted |-> FALSE, issued |-> {}]
            /\ UNCHANGED <<artworks, selectedArtworks, loading, first, rows,
                           totalRecords, pageCache, isSelecting, selectCount,
                           navs, ops, netCalls>>
       ELSE
         LET count       == selectCount.v
             currentPage == CurrentPage(first, rows)
             plan        == CalculatePagesNeeded(count, currentPage, rows)
             missing     == Missing(plan, pageCache)
             op == [count |-> count, first |-> first, size |-> rows,
                    plan |-> plan, snap |-> pageCache,
                    requested |-> missing, pending |-> missing,
                    newCache |-> CachedPart(plan, pageCache),
                    failed |-> {}, arrived |-> <<>>, manual |-> <<>>,
                    issuedNow |-> missing]
         IN /\ netCalls + Cardinality(missing) <= MaxNetCalls
            /\ netCalls' = netCalls + Cardinality(missing)
            /\ IF missing = {}
                 THEN \* every promise is already settled: the rest of the
                      \* handler runs before any other event
                      AutoSelectFinish(op, op.newCache, ops)
                 ELSE /\ isSelecting' = TRUE
                      /\ ops' = Append(ops, op)
                      /\ lastOp' = [op |-> "autoSelect",
                                    count |-> selectCount,
                                    accepted |-> TRUE, issued |-> missing]
                      /\ UNCHANGED <<pageCache, selectedArtworks>>
            /\ UNCHANGED <<artworks, loading, first, rows, totalRecords,
                           selectCount, navs>>

\* the response for page p of ops[i] arrives: newCache[pageNum] = mappedData
\* on success, nothing but the console message on failure
PrefetchArrive(op, p, ok) ==
  [op EXCEPT !.pending = @ \ {p},
             !.newCache = IF ok THEN PutPage(@, p, RemotePage(p, op.size))
                          ELSE @,
             !.failed = IF ok THEN @ ELSE @ \cup {p},
             !.arrived = Append(@, p),
             !.issuedNow = {}]

\* a response that is not the last one of its prefetchPages call
PrefetchResponse ==
  \E i \in 1..Len(ops) : \E p \in ops[i].pending : \E ok \in BOOLEAN :
    /\ ops[i].pending # {p}
    /\ ops' = [ops EXCEPT ![i] = PrefetchArrive(ops[i], p, ok)]
    /\ lastOp' = [op |-> "prefetchResponse", page |-> p, ok |-> ok,
                  issued |-> {}]
    /\ UNCHANGED <<artworks, selectedArtworks, loading, first, rows,
                   totalRecords, pageCache, isSelecting, selectCount, navs,
                   netCalls>>

\* mutant: the completed bulk selection also replaces the displayed rows
AutoSelectDoneShowsSelection ==
  \E i \in 1..Len(ops) : \E p \in ops[i].pending : \E ok \in BOOLEAN :
    /\ ops[i].pending = {p}
    /\ LET op == PrefetchArrive(ops[i], p, ok)
       IN AutoSelectFinish(op, op.newCache, RemoveAt(ops, i))
    /\ artworks' = selectedArtworks'
    /\ UNCHANGED <<loading, first, rows, totalRecords, selectCount, navs,
                   netCalls>>

\* the last response: Promise.all settles, prefetchPages returns and
\* handleAutoSelect runs to its end
AutoSelectDone ==
  \E i \in 1..Len(ops) : \E p \in ops[i].pending : \E ok \in BOOLEAN :
    /\ ops[i].pending = {p}
    /\ LET op == PrefetchArrive(ops[i], p, ok)
       IN AutoSelectFinish(op, op.newCache, RemoveAt(ops, i))
    /\ UNCHANGED <<artworks, loading, first, rows, totalRecords, selectCount,
                   navs, netCalls>>

Next ==
  \/ OnPage
  \/ FetchResponse
  \/ SetSelectCount
  \/ OnSelectionChange
  \/ HandleAutoSelect
  \/ PrefetchResponse
  \/ AutoSelectDone

Spec == Init /\ [][Next]_vars

\* every request issued gets its response, a success or a failure
FairSpec ==
  /\ Spec
  /\ WF_vars(FetchResponse)
  /\ WF_vars(PrefetchResponse)
  /\ WF_vars(AutoSelectDone)

\* ------------------------------------------------------------ checking
\* the last step completed a bulk selection
BulkDone == lastOp.op = "autoSelectDone"

\* the planned pages the completed bulk selection took from the cache
CachedPlanned == (DOMAIN lastOp.fetched) \ lastOp.requested

\* the completed bulk selection had no failed fetch, and every planned page
\* it took from the cache holds that page at the page size of the call
AllAvailable ==
  /\ lastOp.failed = {}
  /\ \A p \in CachedPlanned : lastOp.fetched[p] = RemotePage(p, lastOp.size)

\* offset of the first record of the page displayed when Select was clicked
StartOffset == (lastOp.first \div lastOp.size) * lastOp.size

\* count records of the dataset from offset on, in dataset order
LinearScan(offset, count) ==
  [i \in 1..Max(0, Min(count, Total - offset)) |-> offset + i]

\* C1: with every planned fetch successful and every cached planned page
\* fetched at the current page size, the selection after a bulk selection is
\* the linear scan of the dataset from the current page's offset, cut at
\* desiredCount
C1_LinearScan ==
  (BulkDone /\ AllAvailable) =>
     selectedArtworks = LinearScan(StartOffset, lastOp.count)

\* a bulk selection from a later page over several pages, some fetched and
\* all available, that delivered the full count
C1_Witness ==
  /\ BulkDone /\ AllAvailable
  /\ StartOffset > 0
  /\ Len(lastOp.plan) >= 2
  /\ lastOp.requested # {}
  /\ Len(selectedArtworks) = lastOp.count

\* C2 as stated: from every starting page, with no failed fetch, the
\* selection holds min(desiredCount, totalRecords) records
C2_Original ==
  (BulkDone /\ lastOp.failed = {}) =>
     Len(selectedArtworks) = Min(lastOp.count, Total)

\* C2 amended: with no failed fetch and the cached planned pages fetched at
\* the current page size, the selection holds min(desiredCount, number of
\* records from the current page's offset to the end of the dataset)
C2_Amended ==
  (BulkDone /\ AllAvailable) =>
     Len(selectedArtworks) =
       Min(lastOp.count, Max(0, Total - StartOffset))

\* a bulk selection from a later page that ran out of records before
\* desiredCount and before totalRecords
C2_Witness ==
  /\ BulkDone /\ AllAvailable
  /\ StartOffset > 0
  /\ Len(selectedArtworks) > 0
  /\ Len(selectedArtworks) < Min(lastOp.count, Total)

\* this step is a run of handleAutoSelect from its start
SelectClicked ==
  \/ lastOp'.op = "autoSelect"
  \/ lastOp'.op = "autoSelectDone" /\ lastOp'.sync

\* C3: a click on Select with the count null, zero or negative changes
\* nothing: selection, cache, busy flag, cursor, and no request is issued
C3_RejectedNoOp ==
  [][(SelectClicked /\ (selectCount.isNull \/ selectCount.v <= 0)) =>
       UNCHANGED <<selectedArtworks, pageCache, isSelecting, first, rows,
                   totalRecords, artworks, loading, navs, ops, netCalls,
                   selectCount>>]_vars

\* a click with the count absent was rejected while a selection and cached
\* pages existed
C3_Witness ==
  /\ lastOp.op = "autoSelect"
  /\ ~lastOp.accepted
  /\ lastOp.count.isNull
  /\ selectedArtworks # <<>>
  /\ DOMAIN pageCache # {}

\* C4: no step requests over the network a page that is a key of pageCache
\* when the step starts, and a step issues exactly the requests it lists
C4_NoRefetch ==
  [][/\ lastOp'.issued \cap DOMAIN pageCache = {}
     /\ netCalls' - netCalls = Cardinality(lastOp'.issued)]_vars

\* a navigation to a later page was served from the cache after several
\* requests had been made
C4_Witness ==
  /\ lastOp.op = "onPage" /\ lastOp.hit
  /\ lastOp.page >= 2
  /\ netCalls >= 3

\* C5 as stated: fetchArtworks(p, size) called again right after its first
\* call has completed: one network access for the two calls together, and
\* the rows shown are the same both times
C5_Original ==
  [][(/\ lastOp.op = "fetchDone"
      /\ lastOp'.op = "onPage"
      /\ lastOp'.page = lastOp.page /\ lastOp'.size = lastOp.size)
     => (/\ netCalls' = lastOp.calls0 + 1
         /\ artworks' = artworks)]_vars

\* C5 amended: fetchArtworks(p, size) for a page not cached, called again
\* right after its first call has completed.  When the first call stored the
\* page: one network access for the two calls together, and the rows shown
\* are the same both times, the page the remote source holds.  When the
\* first call stored nothing and p is still not cached: the second call
\* issues the request again, two network accesses for the two calls
C5_FetchTwice ==
  [][/\ (/\ lastOp.op = "fetchDone" /\ lastOp.stored
         /\ lastOp'.op = "onPage"
         /\ lastOp'.page = lastOp.page /\ lastOp'.size = lastOp.size)
        => (/\ netCalls' = lastOp.calls0 + 1
            /\ artworks' = artworks
            /\ artworks' = RemotePage(lastOp.page, lastOp.size))
     /\ (/\ lastOp.op = "fetchDone" /\ ~lastOp.stored
         /\ lastOp.page \notin DOMAIN pageCache
         /\ lastOp'.op = "onPage"
         /\ lastOp'.page = lastOp.page /\ lastOp'.size = lastOp.size)
        => (/\ lastOp'.issued = {lastOp.page}
            /\ netCalls' = lastOp.calls0 + 2
            /\ artworks' = artworks)]_vars

\* the second of two calls for the same non-empty page has run
C5_Witness ==
  /\ lastOp.op = "onPage" /\ lastOp.again
  /\ artworks # <<>>
  /\ lastOp.page >= 2

\* C6 as stated: a fetch of page p (navigation or prefetch) that ends in the
\* catch block adds or changes no cache entry for p, the operation ends as
\* usual, and a later navigation to p issues a new request
C6_FailureKeepsCache ==
  [][/\ (lastOp'.op = "fetchDone" /\ ~lastOp'.ok) =>
          (pageCache' = pageCache /\ ~loading')
     /\ (lastOp'.op = "prefetchResponse" /\ ~lastOp'.ok) =>
          pageCache' = pageCache
     /\ lastOp'.op = "autoSelectDone" =>
          (/\ ~isSelecting'
           /\ \A p \in lastOp'.failed :
                /\ p \in DOMAIN pageCache' <=> p \in DOMAIN pageCache
                /\ p \in DOMAIN pageCache => pageCache'[p] = pageCache[p])
     /\ (/\ lastOp.op = "fetchDone" /\ ~lastOp.ok
         /\ lastOp'.op = "onPage"
         /\ lastOp'.page = lastOp.page) =>
          (lastOp'.issued = {lastOp'.page} /\ netCalls' = netCalls + 1)]_vars

\* the records of page p the completed bulk selection obtained
Obtained(p) ==
  IF p \in DOMAIN lastOp.fetched THEN lastOp.fetched[p] ELSE <<>>

\* the obtained records of the pages of a sequence of page numbers, one page
\* after the other
RECURSIVE Flatten(_)
Flatten(pages) ==
  IF pages = <<>> THEN <<>>
  ELSE Obtained(Head(pages)) \o Flatten(Tail(pages))

Prefix(s, n) == SubSeq(s, 1, Min(n, Len(s)))

\* C7: a bulk selection with failed fetches still completes: the selection
\* is made of the records of the planned pages that did not fail, in plan
\* order, nothing comes from a failed page, and isSelecting is false
C7_PartialFailure ==
  (BulkDone /\ lastOp.failed # {}) =>
     /\ selectedArtworks =
          Prefix(Flatten(SelectSeq(lastOp.plan,
                                   LAMBDA p : p \notin lastOp.failed)),
                 lastOp.count)
     /\ lastOp.failed \cap DOMAIN lastOp.fetched = {}
     /\ ~isSelecting

\* a plan of three pages or more whose middle page failed while a page
\* before it and a page after it delivered records to the selection
C7_Witness ==
  /\ BulkDone
  /\ Len(lastOp.plan) >= 3
  /\ \E i \in 2..(Len(lastOp.plan) - 1) :
       /\ lastOp.plan[i] \in lastOp.failed
       /\ Obtained(lastOp.plan[i - 1]) # <<>>
       /\ Obtained(lastOp.plan[i + 1]) # <<>>
       /\ Len(selectedArtworks) > Len(Obtained(lastOp.plan[i - 1]))
  /\ ~isSelecting

\* C8: whatever the order in which the responses arrived, the selection is
\* the obtained pages laid out in plan order and cut at desiredCount
C8_PlanOrder ==
  BulkDone =>
     selectedArtworks = Prefix(Flatten(lastOp.plan), lastOp.count)

\* the response of a later page arrived before that of an earlier page, no
\* planned page was stale, and the selection took records of both fetched
\* pages, those of the earlier page first
C8_Witness ==
  /\ BulkDone /\ AllAvailable
  /\ \E i, j \in 1..Len(lastOp.arrived) :
       LET late  == lastOp.arrived[i]
           early == lastOp.arrived[j]
       IN /\ i < j
          /\ late > early
          /\ {late, early} \subseteq lastOp.requested
          /\ Obtained(late) # <<>>
          /\ Obtained(early) # <<>>
          /\ \E k, l \in 1..Len(selectedArtworks) :
               /\ k < l
               /\ selectedArtworks[k] = Obtained(early)[1]
               /\ selectedArtworks[l] = Obtained(late)[1]

\* C9 as stated: a cache entry, once there, stays with the same contents
C9_CacheImmutable ==
  [][\A p \in DOMAIN pageCache :
       /\ p \in DOMAIN pageCache'
       /\ pageCache'[p] = pageCache[p]]_vars

\* C10: while a bulk selection has started and not yet written its result,
\* isSelecting is true
C10_BusyWhileInFlight ==
  Len(ops) >= 1 => isSelecting

\* a bulk selection awaits a response after another one has completed
C10_Witness ==
  /\ Len(ops) >= 1
  /\ isSelecting
  /\ selectedArtworks # <<>>
  /\ lastOp.op = "autoSelect"

\* C11 as stated: the selection written by a bulk selection holds no record
\* twice
C11_NoDuplicates ==
  BulkDone =>
     \A i, j \in 1..Len(selectedArtworks) :
        selectedArtworks[i] = selectedArtworks[j] => i = j

\* C18 as stated: while the cache holds a page obtained from the remote
\* source, totalRecords is the total the remote source supplies
C18_TotalKnown ==
  DOMAIN pageCache # {} => totalRecords = RemoteTotal

\* C20 as stated: every cached page is at most rows long and holds the
\* records of its page number at the current page size
C20_CacheAtPageSize ==
  \A p \in DOMAIN pageCache :
     /\ Len(pageCache[p]) <= rows
     /\ pageCache[p] = RemotePage(p, rows)

\* ------------------------------------------- the planner on its own
\* calculatePagesNeeded applied to drawn inputs: selectCount is the count,
\* rows the page size, first the offset of the start page
PlanInit ==
  /\ selectCount \in {Num(n) : n \in -1..MaxPlanCount}
  /\ rows \in 1..DefaultRows
  /\ \E start \in 1..MaxPlanStart : first = (start - 1) * rows
  /\ artworks = <<>>
  /\ selectedArtworks = <<>>
  /\ loading = FALSE
  /\ totalRecords = 0
  /\ pageCache = EmptyCache
  /\ isSelecting = FALSE
  /\ navs = <<>>
  /\ ops = <<>>
  /\ netCalls = 0
  /\ lastOp = [op |-> "input", issued |-> {}]

PlanStep ==
  /\ lastOp.op = "input"
  /\ lastOp' = [op |-> "plan", count |-> selectCount.v,
                start |-> CurrentPage(first, rows), size |-> rows,
                pages |-> CalculatePagesNeeded(selectCount.v,
                                               CurrentPage(first, rows),
                                               rows),
                issued |-> {}]
  /\ UNCHANGED <<artworks, selectedArtworks, loading, first, rows,
                 totalRecords, pageCache, isSelecting, selectCount, navs,
                 ops, netCalls>>

PlanSpec == PlanInit /\ [][PlanStep]_vars

\* ceil(count / size)
CeilDiv(count, size) == (count + size - 1) \div size

\* C12: the plan is empty for desiredCount <= 0 and otherwise the
\* ceil(desiredCount / pageSize) consecutive pages from startPage on;
\* (25, 1, 12) gives [1, 2, 3], (12, 1, 12) gives [1], (0, 1, 12) gives []
C12_PlanPages ==
  lastOp.op = "plan" =>
     /\ lastOp.pages =
          IF lastOp.count <= 0 THEN <<>>
          ELSE [i \in 1..CeilDiv(lastOp.count, lastOp.size) |->
                  lastOp.start + i - 1]
     /\ (lastOp.start = 1 /\ lastOp.size = 12) =>
          /\ lastOp.count = 25 => lastOp.pages = <<1, 2, 3>>
          /\ lastOp.count = 12 => lastOp.pages = <<1>>
          /\ lastOp.count = 0 => lastOp.pages = <<>>

\* the plan for 25 records from page 1 at page size 12 was computed
C12_Witness ==
  /\ lastOp.op = "plan"
  /\ lastOp.count = 25 /\ lastOp.start = 1 /\ lastOp.size = 12
  /\ lastOp.pages = <<1, 2, 3>>

\* ------------------------------------------ the assembly on its own
\* the assembly loop of handleAutoSelect applied to drawn inputs: pageCache
\* is fetchedData, the plan is pages 1..AsmPages, selectCount the count
AsmLens == (0..MaxAsmLen) \cup {DefaultRows}
AsmPlan == [k \in 1..AsmPages |-> k]
AsmPage(p, len) == [i \in 1..len |-> (p - 1) * DefaultRows + i]

AsmInit ==
  /\ selectCount \in {Num(n) : n \in 1..MaxAsmCount}
  /\ \E lens \in [1..AsmPages -> AsmLens] :
       pageCache = [p \in 1..AsmPages |-> AsmPage(p, lens[p])]
  /\ rows = DefaultRows
  /\ first = 0
  /\ artworks = <<>>
  /\ selectedArtworks = <<>>
  /\ loading = FALSE
  /\ totalRecords = 0
  /\ isSelecting = FALSE
  /\ navs = <<>>
  /\ ops = <<>>
  /\ netCalls = 0
  /\ lastOp = [op |-> "input", issued |-> {}]

AsmStep ==
  /\ lastOp.op = "input"
  /\ selectedArtworks' =
       Assemble(selectCount.v, AssemblyOrder(AsmPlan, <<>>), pageCache,
                EmptyCache)
  /\ lastOp' = [op |-> "assemble", count |-> selectCount.v,
                plan |-> AsmPlan, issued |-> {}]
  /\ UNCHANGED <<artworks, loading, first, rows, totalRecords, pageCache,
                 isSelecting, selectCount, navs, ops, netCalls>>

AsmSpec == AsmInit /\ [][AsmStep]_vars

\* records on the first k planned pages
RECURSIVE SumLen(_)
SumLen(k) == IF k = 0 THEN 0 ELSE SumLen(k - 1) + Len(pageCache[AsmPlan[k]])

\* records page k has to give: what is still needed after the pages before
\* it, at most the page
TakeOf(k) ==
  Max(0, Min(Len(pageCache[AsmPlan[k]]), lastOp.count - SumLen(k - 1)))

\* C13: the assembly takes from each planned page, in plan order, the prefix
\* of min(still needed, page length) records; the total is
\* min(desiredCount, sum of the page lengths)
C13_Assembly ==
  lastOp.op = "assemble" =>
     /\ Len(selectedArtworks) = Min(lastOp.count, SumLen(AsmPages))
     /\ \A k \in 1..AsmPages :
          LET start == Min(lastOp.count, SumLen(k - 1))
          IN SubSeq(selectedArtworks, start + 1, start + TakeOf(k)) =
               SubSeq(pageCache[AsmPlan[k]], 1, TakeOf(k))

\* pages of 12, 12 and 12 records and a count of 20: 12 + 8 + 0
C13_Witness ==
  /\ lastOp.op = "assemble"
  /\ lastOp.count = 20
  /\ \A k \in 1..3 : Len(pageCache[k]) = 12
  /\ TakeOf(1) = 12 /\ TakeOf(2) = 8 /\ TakeOf(3) = 0
  /\ selectedArtworks = [i \in 1..20 |-> i]

\* the records a completed bulk selection (its record l) obtained, laid out
\* in plan order and cut at its count
RECURSIVE FlattenOf(_, _)
FlattenOf(fetched, pages) ==
  IF pages = <<>> THEN <<>>
  ELSE (IF Head(pages) \in DOMAIN fetched THEN fetched[Head(pages)]
        ELSE <<>>) \o FlattenOf(fetched, Tail(pages))

AssembledOf(l) == Prefix(FlattenOf(l.fetched, l.plan), l.count)

\* C14: a completing bulk selection leaves exactly the sequence it assembled
\* in selectedArtworks, whatever was there before; a manual selection event
\* leaves exactly its value
C14_Overwrite ==
  [][/\ lastOp'.op = "autoSelectDone" =>
          selectedArtworks' = AssembledOf(lastOp')
     /\ lastOp'.op = "onSelectionChange" =>
          selectedArtworks' = lastOp'.value]_vars

\* a bulk selection completed after a row had been selected by hand while
\* it was in flight, and that row is not in the selection it left
C14_Witness ==
  /\ BulkDone
  /\ lastOp.manual # <<>>
  /\ selectedArtworks # <<>>
  /\ \A i \in 1..Len(selectedArtworks) :
        selectedArtworks[i] # lastOp.manual[1]

\* C15: neither the navigation event nor the settling of its fetch, hit,
\* success or failure, changes the selection
C15_NavigationKeepsSelection ==
  [][(lastOp'.op = "onPage" \/ lastOp'.op = "fetchDone") =>
       selectedArtworks' = selectedArtworks]_vars

\* the fetch of a navigation to a later page has settled while records were
\* selected
C15_Witness ==
  /\ lastOp.op = "fetchDone"
  /\ lastOp.page >= 2
  /\ selectedArtworks # <<>>

\* C16: no step of a bulk selection (the click, a prefetch response, the
\* completion) changes the cursor, the total, the displayed rows, loading
\* or the count entered
C16_BulkKeepsView ==
  [][(\/ lastOp'.op = "autoSelect"
      \/ lastOp'.op = "prefetchResponse"
      \/ lastOp'.op = "autoSelectDone") =>
       UNCHANGED <<first, rows, totalRecords, artworks, loading,
                   selectCount>>]_vars

\* a bulk selection over several pages, some fetched, completed on a later
\* page with rows displayed, and changed the selection and the cache
C16_Witness ==
  /\ BulkDone
  /\ lastOp.requested # {}
  /\ Len(lastOp.plan) >= 2
  /\ first > 0
  /\ artworks # <<>>
  /\ selectedArtworks # <<>>
  /\ selectedArtworks # artworks

\* C17: when every request gets its response, again and again both
\* indicators are cleared, whatever mix of successes and failures occurred
C17_IndicatorsClear ==
  []<>(~loading /\ ~isSelecting)

\* both indicators are cleared after a successful fetch and, last, a
\* failed one, with no request left in flight
C17_Witness ==
  /\ ~loading /\ ~isSelecting
  /\ lastOp.op = "fetchDone" /\ ~lastOp.stored
  /\ DOMAIN pageCache # {}
  /\ navs = <<>> /\ ops = <<>>
  /\ netCalls >= 3

\* C19 as stated: while no page fetch is in flight and the page the cursor
\* is on is a key of the cache, the displayed rows are that cache entry
C19_DisplayedIsCached ==
  (navs = <<>> /\ CurrentPage(first, rows) \in DOMAIN pageCache)
     => artworks = pageCache[CurrentPage(first, rows)]

====
